---------------------------- MODULE Spec2Model ----------------------------
(***************************************************************************)
(* A model of scripts/process_photos.py: the photo id allocator            *)
(* (generate_photo_id), the thumbnail generator (create_thumbnail), the    *)
(* record emitter (create_collection_file) and the drivers                 *)
(* (process_single_image, process_directory).                              *)
(*                                                                         *)
(* Strings whose characters the code inspects (file names, path parts,     *)
(* EXIF date strings) are sequences of one-character strings.  Strings the *)
(* code only copies (tags, locations) are TLA+ strings.                    *)
(***************************************************************************)
EXTENDS Integers, Sequences, FiniteSets, TLC

VARIABLES
    pc,              \* position of the running entry point
    date_str,        \* generate_photo_id: the date token argument
    existing_files,  \* generate_photo_id: the names in the target directory
    photo_id,        \* generate_photo_id: the value returned
    img_size,        \* create_thumbnail resize step: <<width, height>> of the source
    max_width,       \* create_thumbnail resize step: the max_width argument
    new_size,        \* create_thumbnail resize step: the size of the image that is saved
    clock,           \* the time the filesystem stamps on a file that is written
    mtime,           \* st_mtime of each source image
    thumbs,          \* the files of THUMB_DIR, by path
    records,         \* the files of COLLECTION_DIR, by path
    exif,            \* the EXIF data embedded in each source image
    run,             \* main(): the arguments, the files found, the images still to process
    last             \* the last call made: its arguments, what it returned and printed

vars == <<pc, date_str, existing_files, photo_id, img_size, max_width, new_size,
          clock, mtime, thumbs, records, exif, run, last>>

None == <<>>

(***************************************************************************)
(* Bounds of the model.                                                    *)
(***************************************************************************)
MaxSeq == 3      \* largest sequence number written in a generated file name
MaxFiles == 2    \* largest number of names in the directory given to the allocator
MaxDim == 23     \* largest width, height and max_width of the small images resized
MaxClock == 2    \* latest time stamp
MaxCalls == 2    \* largest number of calls made in one behaviour

(***************************************************************************)
(* Character strings.                                                      *)
(***************************************************************************)
DigitChars == <<"0", "1", "2", "3", "4", "5", "6", "7", "8", "9">>

IsDigit(c) == \E i \in 1..10 : DigitChars[i] = c

DigitVal(c) == (CHOOSE i \in 1..10 : DigitChars[i] = c) - 1

\* str.startswith
StartsWith(s, p) == Len(s) >= Len(p) /\ SubSeq(s, 1, Len(p)) = p

\* str.replace(pat, ''): every non-overlapping occurrence, left to right
RECURSIVE Remove(_, _)
Remove(s, pat) ==
    IF s = <<>> THEN <<>>
    ELSE IF StartsWith(s, pat) THEN Remove(SubSeq(s, Len(pat) + 1, Len(s)), pat)
    ELSE <<Head(s)>> \o Remove(Tail(s), pat)

\* str.split(sep) for a one-character separator: the list of parts
RECURSIVE Split(_, _)
Split(s, sep) ==
    IF \A i \in 1..Len(s) : s[i] # sep THEN <<s>>
    ELSE LET i == CHOOSE k \in 1..Len(s) : s[k] = sep /\ \A j \in 1..(k - 1) : s[j] # sep
         IN  <<SubSeq(s, 1, i - 1)>> \o Split(SubSeq(s, i + 1, Len(s)), sep)

\* str.strip() for the blank character
RECURSIVE Strip(_)
Strip(s) ==
    IF s = <<>> THEN s
    ELSE IF Head(s) = " " THEN Strip(Tail(s))
    ELSE IF s[Len(s)] = " " THEN Strip(SubSeq(s, 1, Len(s) - 1))
    ELSE s

RECURSIVE DecimalValue(_)
DecimalValue(s) ==
    IF s = <<>> THEN 0 ELSE 10 * DecimalValue(SubSeq(s, 1, Len(s) - 1)) + DigitVal(s[Len(s)])

\* int(s): blanks stripped, an optional sign, then one or more digits; anything
\* else raises ValueError (ok = FALSE)
IntParse(s) ==
    LET t == Strip(s)
        signed == t # <<>> /\ Head(t) \in {"+", "-"}
        d == IF signed THEN Tail(t) ELSE t
    IN  IF d # <<>> /\ \A i \in 1..Len(d) : IsDigit(d[i])
        THEN [ok |-> TRUE,
              val |-> IF signed /\ Head(t) = "-" THEN 0 - DecimalValue(d) ELSE DecimalValue(d)]
        ELSE [ok |-> FALSE, val |-> 0]

\* str(n) for n >= 0
RECURSIVE Digits(_)
Digits(n) ==
    IF n < 10 THEN <<DigitChars[n + 1]>> ELSE Digits(n \div 10) \o <<DigitChars[(n % 10) + 1]>>

SetMax(S) == CHOOSE x \in S : \A y \in S : y <= x

(***************************************************************************)
(* generate_photo_id                                                       *)
(***************************************************************************)
\* the ids the loop collects: a name counts when, with every ".jpg" and ".JPG"
\* removed, it splits at "_" into exactly two parts and int() accepts the second
PhotoIds(same_date_files) ==
    { IntParse(Split(Remove(Remove(f, <<".", "j", "p", "g">>), <<".", "J", "P", "G">>), "_")[2]).val :
        f \in { g \in same_date_files :
                  LET parts == Split(Remove(Remove(g, <<".", "j", "p", "g">>),
                                            <<".", "J", "P", "G">>), "_")
                  IN  Len(parts) = 2 /\ IntParse(parts[2]).ok } }

\* a faulty variant, for comparison: only ".jpg" is removed from a name, ".JPG" is forgotten
GeneratePhotoIdLowerCaseOnly(date, files) ==
    LET same_date_files == {f \in files : StartsWith(f, date)}
        ids == { IntParse(Split(Remove(f, <<".", "j", "p", "g">>), "_")[2]).val :
                   f \in { g \in same_date_files :
                             LET parts == Split(Remove(g, <<".", "j", "p", "g">>), "_")
                             IN  Len(parts) = 2 /\ IntParse(parts[2]).ok } }
    IN  IF ids # {} THEN SetMax(ids) + 1 ELSE 1

\* a faulty variant, for comparison: number the photo by how many files share the date
GeneratePhotoIdByCount(date, files) ==
    Cardinality({f \in files : StartsWith(f, date)}) + 1

GeneratePhotoId(date, files) ==
    LET same_date_files == {f \in files : StartsWith(f, date)}
        ids == PhotoIds(same_date_files)
    IN  IF same_date_files = {} THEN 1
        ELSE IF ids # {} THEN SetMax(ids) + 1
        ELSE 1

(***************************************************************************)
(* Python floats (IEEE 754 binary64, round to nearest, ties to even).      *)
(* A positive float is [mant, exp]: mant is its significand, MantBits bits *)
(* with the most significant first (mant[1] = 1), and its value is         *)
(* mant * 2^exp.                                                           *)
(***************************************************************************)
MantBits == 53

RECURSIVE BitsToInt(_)
BitsToInt(b) == IF b = <<>> THEN 0 ELSE 2 * BitsToInt(SubSeq(b, 1, Len(b) - 1)) + b[Len(b)]

RECURSIVE IntToBits(_)
IntToBits(n) == IF n = 0 THEN <<>> ELSE IntToBits(n \div 2) \o <<n % 2>>

\* acc followed by the next n bits of r / w (0 <= r < w), and the remainder left
RECURSIVE QuotientBits(_, _, _, _)
QuotientBits(r, w, n, acc) ==
    IF n = 0 THEN [bits |-> acc, rem |-> r]
    ELSE IF 2 * r >= w THEN QuotientBits(2 * r - w, w, n - 1, Append(acc, 1))
    ELSE QuotientBits(2 * r, w, n - 1, Append(acc, 0))

\* the significand plus one unit in its last place
RECURSIVE Increment(_)
Increment(b) ==
    IF b = <<>> THEN <<1>>
    ELSE IF b[Len(b)] = 0 THEN SubSeq(b, 1, Len(b) - 1) \o <<1>>
    ELSE Increment(SubSeq(b, 1, Len(b) - 1)) \o <<0>>

\* kept * 2^exp rounded up (or not) to a float
Rounded(kept, exp, up) ==
    IF ~up THEN [mant |-> kept, exp |-> exp]
    ELSE LET inc == Increment(kept)
         IN  IF Len(inc) > MantBits
             THEN [mant |-> SubSeq(inc, 1, MantBits), exp |-> exp + 1]
             ELSE [mant |-> inc, exp |-> exp]

\* the least k >= 1 with m * 2^k >= w, for 0 < m < w
RECURSIVE Shift(_, _)
Shift(m, w) == IF 2 * m >= w THEN 1 ELSE 1 + Shift(2 * m, w)

\* m / float(w) for integers 0 < m < w
FloatDiv(m, w) ==
    LET k == Shift(m, w)
        m2 == BitsToInt(IntToBits(m) \o [i \in 1..k |-> 0])   \* m * 2^k, in [w, 2w)
        q == QuotientBits(m2 - w, w, MantBits - 1, <<1>>)
        kept == q.bits
        up == 2 * q.rem > w \/ (2 * q.rem = w /\ kept[MantBits] = 1)
    IN  Rounded(kept, 0 - k - (MantBits - 1), up)

\* the bits of b * h + carry followed by acc, b read from its last bit to its first
RECURSIVE MulBits(_, _, _, _)
MulBits(b, h, carry, acc) ==
    IF b = <<>> THEN IntToBits(carry) \o acc
    ELSE MulBits(SubSeq(b, 1, Len(b) - 1), h, (b[Len(b)] * h + carry) \div 2,
                 <<(b[Len(b)] * h + carry) % 2>> \o acc)

\* h * f for an integer h >= 1 (float(h) is exact) and a float f
FloatMulInt(h, f) ==
    LET t == MulBits(f.mant, h, 0, <<>>)
        extra == Len(t) - MantBits
        kept == SubSeq(t, 1, MantBits)
        up == /\ extra > 0
              /\ t[MantBits + 1] = 1
              /\ (kept[MantBits] = 1 \/ \E i \in (MantBits + 2)..Len(t) : t[i] = 1)
    IN  Rounded(kept, f.exp + extra, up)

\* int(f) for a positive float below 2^MantBits: the bits above the binary point
Truncate(f) ==
    IF MantBits + f.exp <= 0 THEN 0 ELSE BitsToInt(SubSeq(f.mant, 1, MantBits + f.exp))

Max(a, b) == IF a >= b THEN a ELSE b

(***************************************************************************)
(* create_thumbnail: the size of the image that is saved                   *)
(***************************************************************************)
\* a faulty variant, for comparison: always resize to max_width, also when that upscales
ThumbSizeAlwaysResize(width, height, maxw) ==
    IF width # maxw THEN <<maxw, Max((height * maxw) \div width, 1)>> ELSE <<width, height>>

ThumbSize(width, height, maxw) ==
    IF width > maxw
    THEN LET ratio == FloatDiv(maxw, width)
             new_height == Max(Truncate(FloatMulInt(height, ratio)), 1)
         IN  <<maxw, new_height>>
    ELSE <<width, height>>

(***************************************************************************)
(* Paths.  A path is the sequence of its parts below the filesystem root,  *)
(* as Path.resolve() gives it; a part is a character string.               *)
(***************************************************************************)
PROJECT_ROOT == << <<"s", "i", "t", "e">> >>
PHOTOS_DIR ==
    PROJECT_ROOT \o << <<"a", "s", "s", "e", "t", "s">>, <<"i", "m", "a", "g", "e", "s">>,
                       <<"p", "h", "o", "t", "o", "s">> >>
THUMB_DIR == PHOTOS_DIR \o << <<"t", "h", "u", "m", "b", "s">> >>
COLLECTION_DIR == PROJECT_ROOT \o << <<"_", "p", "h", "o", "t", "o", "s">> >>
TEMP_DIR == PHOTOS_DIR \o << <<"_", "t", "e", "m", "p">> >>
THUMB_MAX_WIDTH == 720

\* Path.relative_to(base): the parts below base; ValueError (ok = FALSE) when the
\* path is not below base
RelativeTo(path, base) ==
    IF StartsWith(path, base)
    THEN [ok |-> TRUE, parts |-> SubSeq(path, Len(base) + 1, Len(path))]
    ELSE [ok |-> FALSE, parts |-> <<>>]

\* PurePath.suffix of a name: from its last dot, unless that dot is the first or
\* the last character
SuffixOf(name) ==
    LET dots == {i \in 1..Len(name) : name[i] = "."}
    IN  IF dots = {} THEN <<>>
        ELSE LET i == SetMax(dots)
             IN  IF 1 < i /\ i < Len(name) THEN SubSeq(name, i, Len(name)) ELSE <<>>

\* PurePath.stem
Stem(path) ==
    LET name == path[Len(path)]
    IN  SubSeq(name, 1, Len(name) - Len(SuffixOf(name)))

\* Path.with_suffix('')
WithSuffixRemoved(path) == [path EXCEPT ![Len(path)] = Stem(path)]

\* sep.join(parts)
RECURSIVE Join(_, _)
Join(parts, sep) ==
    IF parts = <<>> THEN <<>>
    ELSE IF Len(parts) = 1 THEN parts[1]
    ELSE parts[1] \o sep \o Join(Tail(parts), sep)

\* path_to_site_url: the URL of a file of the project; ValueError outside it
PathToSiteUrl(path) ==
    LET rel == RelativeTo(path, PROJECT_ROOT)
    IN  [ok |-> rel.ok, url |-> <<"/">> \o Join(rel.parts, <<"/">>)]

\* lines 132-133: safe_name and thumbnail_path
ThumbnailPath(rel_path) ==
    LET safe_name == Join(WithSuffixRemoved(rel_path), <<"_">>)
                         \o <<"_", "t", "h", "u", "m", "b", ".", "j", "p", "g">>
    IN  THUMB_DIR \o <<safe_name>>

(***************************************************************************)
(* The image files of the model.                                           *)
(***************************************************************************)
XJpg == <<"x", ".", "j", "p", "g">>
XPng == <<"x", ".", "p", "n", "g">>
TempXJpg == <<"_", "t", "e", "m", "p", "_", "x", ".", "j", "p", "g">>
OldJpg == <<"2", "4", "0", "3", "1", "5", "_", "1", ".", "j", "p", "g">>
YJpg == <<"y", ".", "j", "p", "g">>
ZJpg == <<"z", ".", "j", "p", "g">>
OUTSIDE_DIR == << <<"m", "n", "t">> >>

NewJpg == TEMP_DIR \o <<XJpg>>          \* _temp/x.jpg
NewPng == TEMP_DIR \o <<XPng>>          \* _temp/x.png
FlatJpg == PHOTOS_DIR \o <<TempXJpg>>   \* photos/_temp_x.jpg
KeptJpg == PHOTOS_DIR \o <<OldJpg>>     \* photos/240315_1.jpg
OutsideJpg == OUTSIDE_DIR \o <<YJpg>>   \* a file outside the project
MissingJpg == TEMP_DIR \o <<ZJpg>>      \* a path at which there is no file

DOCS_DIR == PROJECT_ROOT \o << <<"d", "o", "c", "s">> >>
MISSING_DIR == PROJECT_ROOT \o << <<"n", "o", "n", "e">> >>
NotesTxt == DOCS_DIR \o << <<"n", "o", "t", "e", "s", ".", "t", "x", "t">> >>

Images == {NewJpg, NewPng, FlatJpg, KeptJpg, OutsideJpg}
Paths == Images \cup {MissingJpg}
Files == Paths \cup {NotesTxt}

\* Image.size of each image
SizeOf(path) ==
    CASE path = NewJpg -> <<1056, 704>>
      [] path = NewPng -> <<640, 480>>
      [] path = FlatJpg -> <<4032, 3024>>
      [] path = KeptJpg -> <<1440, 3>>
      [] OTHER -> <<800, 600>>

\* the size create_thumbnail saves each image at, with the default max_width
SavedSize == [p \in Images |-> ThumbSize(SizeOf(p)[1], SizeOf(p)[2], THUMB_MAX_WIDTH)]

NoFile == [exists |-> FALSE, mtime |-> 0, src |-> None, size |-> None]

ThumbPaths == { ThumbnailPath(RelativeTo(p, PROJECT_ROOT).parts) :
                  p \in {q \in Paths : RelativeTo(q, PROJECT_ROOT).ok} }

(***************************************************************************)
(* create_thumbnail                                                        *)
(***************************************************************************)
Exists(files, path) == path \in DOMAIN files /\ files[path].exists

\* a faulty variant, for comparison: a thumbnail as old as its source is stale
IsFreshStrict(thumb_mtime, image_mtime) == thumb_mtime > image_mtime

\* line 137: the thumbnail is up to date
IsFresh(thumb_mtime, image_mtime) == thumb_mtime >= image_mtime

\* a faulty variant, for comparison: the message of line 129 is not printed
OutsideProjectSilent(image_path) == <<>>

\* line 129
OutsideProjectMessage(image_path) == <<"outside_project">>

\* create_thumbnail(image_path) with the default max_width, run at time now on
\* the sources src and the thumbnails th.  encode_ok: whether Image.open, resize,
\* convert and save (lines 141-152) run without raising.  The result: what is
\* returned (None or the thumbnail path), what is printed, the thumbnails left,
\* and whether the image was encoded.
CreateThumbnail(image_path, src, th, now, encode_ok) ==
    LET rel_path == RelativeTo(image_path, PROJECT_ROOT)
        thumbnail_path == ThumbnailPath(rel_path.parts)
    IN  IF ~Exists(src, image_path)
        THEN [ret |-> None, out |-> <<>>, thumbs |-> th, encoded |-> FALSE]
        ELSE IF ~rel_path.ok
        THEN [ret |-> None, out |-> OutsideProjectMessage(image_path), thumbs |-> th,
              encoded |-> FALSE]
        ELSE IF /\ Exists(th, thumbnail_path)
                /\ IsFresh(th[thumbnail_path].mtime, src[image_path].mtime)
        THEN [ret |-> thumbnail_path, out |-> <<>>, thumbs |-> th, encoded |-> FALSE]
        ELSE IF encode_ok
        THEN [ret |-> thumbnail_path,
              out |-> <<"thumbnail_created">>,
              thumbs |-> [th EXCEPT ![thumbnail_path] =
                            [exists |-> TRUE, mtime |-> now, src |-> image_path,
                             size |-> SavedSize[image_path]]],
              encoded |-> TRUE]
        ELSE [ret |-> None, out |-> <<"thumbnail_failed">>, thumbs |-> th, encoded |-> FALSE]

(***************************************************************************)
(* Dates.  A datetime is [year, month, day, hour, minute, second].         *)
(***************************************************************************)
Pad2(n) == IF n < 10 THEN <<"0">> \o Digits(n) ELSE Digits(n)

Pad4(n) == IF n < 1000 THEN <<"0">> \o Pad2(n \div 10) \o Digits(n % 10)
           ELSE Digits(n)

DaysIn(year, month) ==
    IF month = 2
    THEN (IF year % 4 = 0 /\ (year % 100 # 0 \/ year % 400 = 0) THEN 29 ELSE 28)
    ELSE IF month \in {4, 6, 9, 11} THEN 30 ELSE 31

\* datetime.strptime(s, "%Y:%m:%d %H:%M:%S") on strings in the fixed-width form
\* EXIF writes, "YYYY:MM:DD HH:MM:SS"; any other string of the model is one that
\* strptime rejects too.  ValueError is ok = FALSE.
Strptime(s) ==
    LET shaped == /\ Len(s) = 19
                  /\ s[5] = ":" /\ s[8] = ":" /\ s[11] = " " /\ s[14] = ":" /\ s[17] = ":"
                  /\ \A i \in (1..19) \ {5, 8, 11, 14, 17} : IsDigit(s[i])
        d == [year |-> DecimalValue(SubSeq(s, 1, 4)), month |-> DecimalValue(SubSeq(s, 6, 7)),
              day |-> DecimalValue(SubSeq(s, 9, 10)), hour |-> DecimalValue(SubSeq(s, 12, 13)),
              minute |-> DecimalValue(SubSeq(s, 15, 16)),
              second |-> DecimalValue(SubSeq(s, 18, 19))]
    IN  IF ~shaped THEN [ok |-> FALSE, date |-> None]
        ELSE IF /\ d.year >= 1 /\ d.month \in 1..12 /\ d.day \in 1..DaysIn(d.year, d.month)
                /\ d.hour <= 23 /\ d.minute <= 59 /\ d.second <= 61
        THEN [ok |-> TRUE, date |-> d]
        ELSE [ok |-> FALSE, date |-> None]

\* format_date_for_filename: strftime("%y%m%d")
FormatDateForFilename(date_obj) ==
    Pad2(date_obj.year % 100) \o Pad2(date_obj.month) \o Pad2(date_obj.day)

\* format_date_for_frontmatter: strftime("%Y-%m-%d")
FormatDateForFrontmatter(date_obj) ==
    Pad4(date_obj.year) \o <<"-">> \o Pad2(date_obj.month) \o <<"-">> \o Pad2(date_obj.day)

(***************************************************************************)
(* create_collection_file                                                  *)
(***************************************************************************)
NoRecord == [exists |-> FALSE, front_matter |-> <<>>, caption |-> <<>>]

\* line 165
CollectionFile(image_path) == COLLECTION_DIR \o <<Stem(image_path) \o <<".", "m", "d">> >>

\* A tags argument is [is_list, items]: a list of tags, or a single string
\* (items has one entry), or None (no entry).  A location is a character string,
\* None when not given.
NoTags == [is_list |-> FALSE, items |-> <<>>]

\* lines 178-191
FrontMatter(base_name, date_text, image_path_str, teaser_path_str, location, tags) ==
    LET keys == {"title", "date", "header"}
                  \cup (IF location # <<>> THEN {"location"} ELSE {})
                  \cup (IF tags.items # <<>> THEN {"tags"} ELSE {})
    IN  [k \in keys |->
           CASE k = "title" -> base_name
             [] k = "date" -> date_text
             [] k = "header" -> [teaser |-> teaser_path_str, image |-> image_path_str]
             [] k = "location" -> location
             [] k = "tags" -> tags.items]

\* a faulty variant, for comparison: the file is opened for update and the fields it held are kept
\* beside the new ones, the tags of both joined
WriteFileMerging(old, content) ==
    IF ~old.exists THEN content
    ELSE [content EXCEPT !.front_matter =
            LET new == content.front_matter
                had == old.front_matter
            IN  [k \in DOMAIN had \cup DOMAIN new |->
                   IF k = "tags" /\ k \in DOMAIN had /\ k \in DOMAIN new
                   THEN had[k] \o new[k]
                   ELSE IF k \in DOMAIN new THEN new[k] ELSE had[k]]]

\* line 195, open(collection_file, 'w'): what the file holds once content is
\* written over what it held
WriteFile(old, content) == content

\* create_collection_file(image_path, date_obj, location, tags, teaser_url) on
\* the records recs.  write_ok: whether open() and the writes (lines 195-213) run
\* without raising.  The result: whether the call raised, what it returned (None
\* or the record's path), what it printed, and the records left.
CreateCollectionFile(image_path, date_obj, location, tags, teaser_url, recs, write_ok) ==
    LET base_name == Stem(image_path)
        collection_file == CollectionFile(image_path)
        site_url == PathToSiteUrl(image_path)
    IN  IF date_obj = None
        \* line 168: None has no strftime, and the AttributeError is not caught
        THEN [raised |-> TRUE, ret |-> None, out |-> <<>>, records |-> recs]
        ELSE IF ~site_url.ok
        THEN [raised |-> FALSE, ret |-> None, out |-> <<"outside_project">>, records |-> recs]
        ELSE IF ~write_ok
        THEN [raised |-> FALSE, ret |-> None, out |-> <<"record_failed">>, records |-> recs]
        ELSE LET date_text == FormatDateForFrontmatter(date_obj)
                 teaser_path_str == IF teaser_url # <<>> THEN teaser_url ELSE site_url.url
                 content == [exists |-> TRUE,
                             front_matter |-> FrontMatter(base_name, date_text, site_url.url,
                                                          teaser_path_str, location, tags),
                             caption |-> [date |-> date_text, location |-> location]]
             IN  [raised |-> FALSE, ret |-> collection_file, out |-> <<"record_created">>,
                  records |-> [recs EXCEPT ![collection_file] = WriteFile(@, content)]]

RecordPaths == { CollectionFile(p) : p \in Paths }

(***************************************************************************)
(* get_exif_data and get_date_from_exif.  The EXIF data of an image is     *)
(* [error, data]: error when Image.open or _getexif raises; data maps tag  *)
(* names to values, each [is_str, text]; no tag at all stands for None.    *)
(***************************************************************************)
\* get_exif_data: the data (None on failure) and what is printed
GetExifData(image_path, ex) ==
    IF ex[image_path].error
    THEN [data |-> <<>>, out |-> <<"exif_failed">>]
    ELSE [data |-> ex[image_path].data, out |-> <<>>]

date_fields == <<"DateTimeOriginal", "DateTimeDigitized", "DateTime">>

\* the loop of lines 68-78 from field i on
RECURSIVE DateFromFields(_, _, _)
DateFromFields(exif_data, i, out) ==
    IF i > Len(date_fields) THEN [date |-> None, out |-> out]
    ELSE IF date_fields[i] \notin DOMAIN exif_data THEN DateFromFields(exif_data, i + 1, out)
    ELSE LET date_value == exif_data[date_fields[i]]
         IN  IF ~date_value.is_str THEN DateFromFields(exif_data, i + 1, out)
             ELSE IF Strptime(date_value.text).ok
             THEN [date |-> Strptime(date_value.text).date, out |-> out]
             ELSE DateFromFields(exif_data, i + 1, Append(out, "date_parse_failed"))

\* get_date_from_exif: the datetime (None when no field parses) and what is printed
GetDateFromExif(exif_data) ==
    IF DOMAIN exif_data = {} THEN [date |-> None, out |-> <<>>]
    ELSE DateFromFields(exif_data, 1, <<>>)

(***************************************************************************)
(* process_single_image                                                    *)
(***************************************************************************)
\* process_single_image(image_path, tags, location) at time now on the sources
\* src with EXIF data ex, the thumbnails th and the records recs.  The result:
\* whether the call raised, the path returned, the date read, what is printed,
\* and the thumbnails and records left.
ProcessSingleImage(image_path, tags, location, src, ex, th, recs, now, encode_ok, write_ok) ==
    IF ~Exists(src, image_path)
    THEN [raised |-> FALSE, ret |-> image_path, date_obj |-> None,
          out |-> <<"processing", "not_found">>, thumbs |-> th, records |-> recs]
    ELSE IF ~PathToSiteUrl(image_path).ok
    THEN [raised |-> FALSE, ret |-> image_path, date_obj |-> None,
          out |-> <<"processing", "outside_project">>, thumbs |-> th, records |-> recs]
    ELSE LET exif_data == GetExifData(image_path, ex)
             date == GetDateFromExif(exif_data.data)
             thumb == CreateThumbnail(image_path, src, th, now, encode_ok)
             teaser_url == IF thumb.ret # None THEN PathToSiteUrl(thumb.ret).url ELSE None
             rec == CreateCollectionFile(image_path, date.date, location, tags, teaser_url,
                                         recs, write_ok)
         IN  [raised |-> rec.raised,
              ret |-> IF rec.raised THEN None ELSE image_path,
              date_obj |-> date.date,
              out |-> <<"processing">> \o exif_data.out \o date.out \o <<"date">>
                        \o thumb.out \o rec.out,
              thumbs |-> thumb.thumbs,
              records |-> rec.records]

(***************************************************************************)
(* process_directory: the files it finds, in the order it processes them   *)
(***************************************************************************)
\* the characters of the model in the order of their code points
Alphabet ==
    <<" ", "+", "-", ".", "/", "0", "1", "2", "3", "4", "5", "6", "7", "8", "9", ":",
      "E", "G", "J", "K", "N", "P", "_", "a", "b", "c", "d", "e", "f", "g", "h", "i",
      "j", "k", "l", "m", "n", "o", "p", "q", "r", "s", "t", "u", "v", "w", "x", "y", "z">>

Code(c) == CHOOSE i \in 1..Len(Alphabet) : Alphabet[i] = c

\* a < b for strings
RECURSIVE StrLess(_, _)
StrLess(a, b) ==
    IF b = <<>> THEN FALSE
    ELSE IF a = <<>> THEN TRUE
    ELSE IF Head(a) = Head(b) THEN StrLess(Tail(a), Tail(b))
    ELSE Code(Head(a)) < Code(Head(b))

\* a < b for paths: part by part
RECURSIVE PathLess(_, _)
PathLess(a, b) ==
    IF b = <<>> THEN FALSE
    ELSE IF a = <<>> THEN TRUE
    ELSE IF Head(a) = Head(b) THEN PathLess(Tail(a), Tail(b))
    ELSE StrLess(Head(a), Head(b))

\* sorted(image_files)
RECURSIVE Sorted(_)
Sorted(S) ==
    IF S = {} THEN <<>>
    ELSE LET p == CHOOSE q \in S : \A r \in S : r = q \/ PathLess(q, r)
         IN  <<p>> \o Sorted(S \ {p})

EndsWith(s, e) == Len(s) >= Len(e) /\ SubSeq(s, Len(s) - Len(e) + 1, Len(s)) = e

\* line 267
image_extensions ==
    << <<".", "j", "p", "g">>, <<".", "j", "p", "e", "g">>, <<".", "J", "P", "G">>,
       <<".", "J", "P", "E", "G">>, <<".", "p", "n", "g">>, <<".", "P", "N", "G">> >>

Parent(path) == SubSeq(path, 1, Len(path) - 1)

\* lines 270-272: the files of source_dir that one of the patterns *<ext> matches
ImageFiles(source_dir, src) ==
    { p \in DOMAIN src :
        /\ src[p].exists
        /\ Parent(p) = source_dir
        /\ \E i \in 1..Len(image_extensions) : EndsWith(p[Len(p)], image_extensions[i]) }

(***************************************************************************)
(* The directories and date tokens the allocator is run on.                *)
(***************************************************************************)
Token1 == <<"2", "4", "0", "3", "1", "5">>
Token2 == <<"2", "4", "0", "3", "1", "6">>
DateTokens == {Token1, Token2}

ExtJpg == <<".", "j", "p", "g">>
ExtJPG == <<".", "J", "P", "G">>
ExtPng == <<".", "p", "n", "g">>
ExtJpeg == <<".", "j", "p", "e", "g">>
ExtMixed == <<".", "J", "p", "g">>

\* names of the form <token>_<n><ext>, and names that do not follow the pattern
NumberedNames ==
    { Token1 \o <<"_">> \o Digits(n) \o e :
        n \in 1..MaxSeq, e \in {ExtJpg, ExtJPG, ExtPng, ExtJpeg, ExtMixed} }
OddNames ==
    { Token1 \o m \o ExtJpg :
        m \in { <<>>, <<"_">>, <<"_", "x">>, <<"_", "1", "_", "2">>, <<"_", "0", "2">>, <<"_", "0">>,
                <<"_", "-", "1">>, <<"_", " ", "2">>, <<"0", "_", "2">>,
                <<"_", "1", ".", "j", "p", "g">>, <<".", "j", "p", "g", "_", "2">> } }
    \cup { Token2 \o <<"_", "1">> \o ExtJpg, <<"I", "M", "G", "_", "1">> \o ExtJpg }
NamePool == NumberedNames \cup OddNames

\* the sets of at most k names
RECURSIVE NameSets(_)
NameSets(k) ==
    IF k = 0 THEN {{}}
    ELSE LET smaller == NameSets(k - 1)
         IN  smaller \cup { S \cup {f} : S \in smaller, f \in NamePool }

Directories == NameSets(MaxFiles)

AllocIdle == date_str = <<>> /\ existing_files = {} /\ photo_id = None
ResizeIdle == img_size = <<0, 0>> /\ max_width = 0 /\ new_size = None

NoArgs == [date_obj |-> None, location |-> None, tags |-> NoTags, teaser_url |-> None]
NoCall == [seq |-> 0, op |-> "none", path |-> None, args |-> NoArgs, raised |-> FALSE,
           ret |-> None, out |-> <<>>, encoded |-> FALSE, time |-> 0,
           prev |-> [op |-> "none", path |-> None, ret |-> None, encoded |-> FALSE,
                     time |-> 0],
           before |-> NoRecord]
NoRun == [mode |-> "none", tags |-> NoTags, location |-> None, found |-> <<>>,
          queue |-> <<>>, returned |-> <<>>]
NoExif == [error |-> FALSE, data |-> <<>>]
FilesIdle ==
    /\ clock = 0
    /\ mtime = [p \in Files |-> NoFile]
    /\ thumbs = [t \in ThumbPaths |-> NoFile]
    /\ records = [c \in RecordPaths |-> NoRecord]
    /\ exif = [p \in Images |-> NoExif]
    /\ run = NoRun
    /\ last = NoCall
filevars == <<clock, mtime, thumbs, records, exif, run, last>>

\* the files on disk when the program starts: every image and the text file
FilesOnDisk == [p \in Files |-> IF p = MissingJpg THEN NoFile ELSE [NoFile EXCEPT !.exists = TRUE]]
allocvars == <<date_str, existing_files, photo_id>>
resizevars == <<img_size, max_width, new_size>>

AllocInit ==
    /\ pc = "call"
    /\ date_str \in DateTokens
    /\ existing_files \in Directories
    /\ photo_id = None
    /\ ResizeIdle
    /\ FilesIdle

\* photo_id = generate_photo_id(date_str, existing_files)
Allocate ==
    /\ pc = "call"
    /\ photo_id' = GeneratePhotoId(date_str, existing_files)
    /\ pc' = "allocated"
    /\ UNCHANGED <<date_str, existing_files, resizevars, filevars>>

AllocNext == Allocate

SpecAlloc == AllocInit /\ [][AllocNext]_vars

(***************************************************************************)
(* The images and widths the resize step is run on.                        *)
(***************************************************************************)
\* sizes of photographs wider than THUMB_MAX_WIDTH
PhotoSizes ==
    { <<1056, 704>>, <<1056, 22>>, <<1440, 3>>, <<1441, 3>>, <<4032, 3024>>,
      <<1080, 1350>>, <<721, 1>>, <<2000, 1>> }

ResizeInit ==
    /\ pc = "open"
    /\ \/ img_size \in (1..MaxDim) \X (1..MaxDim) /\ max_width \in 1..MaxDim
       \/ img_size \in PhotoSizes \cup ((1..MaxDim) \X (1..MaxDim)) /\ max_width = THUMB_MAX_WIDTH
    /\ new_size = None
    /\ AllocIdle
    /\ FilesIdle

\* lines 141-152: the image is opened, resized when too wide, and saved
Resize ==
    /\ pc = "open"
    /\ new_size' = ThumbSize(img_size[1], img_size[2], max_width)
    /\ pc' = "saved"
    /\ UNCHANGED <<allocvars, img_size, max_width, filevars>>

ResizeNext == Resize

SpecResize == ResizeInit /\ [][ResizeNext]_vars

(***************************************************************************)
(* Thumbnail generation: create_thumbnail called on the images, as         *)
(* refresh_thumbnails and process_single_image call it, while time passes  *)
(* and sources are replaced.                                               *)
(***************************************************************************)
Touchable == {NewJpg}

ThumbsInit ==
    /\ pc = "thumbs"
    /\ clock = 0
    /\ mtime = FilesOnDisk
    /\ thumbs = [t \in ThumbPaths |-> NoFile]
    /\ records = [c \in RecordPaths |-> NoRecord]
    /\ exif = [p \in Images |-> NoExif]
    /\ run = NoRun
    /\ last = NoCall
    /\ AllocIdle
    /\ ResizeIdle

\* one call create_thumbnail(image_path)
CallCreateThumbnail ==
    /\ pc = "thumbs"
    /\ last.seq < MaxCalls
    /\ \E image_path \in Paths, encode_ok \in BOOLEAN :
         \E r \in {CreateThumbnail(image_path, mtime, thumbs, clock, encode_ok)} :
             /\ thumbs' = r.thumbs
             /\ last' = [NoCall EXCEPT
                           !.seq = last.seq + 1, !.op = "create_thumbnail",
                           !.path = image_path, !.ret = r.ret, !.out = r.out,
                           !.encoded = r.encoded, !.time = clock,
                           !.prev = [op |-> last.op, path |-> last.path, ret |-> last.ret,
                                     encoded |-> last.encoded, time |-> last.time]]
    /\ UNCHANGED <<pc, clock, mtime, records, exif, run, allocvars, resizevars>>

\* a source image is replaced by a file stamped t: edited now, or copied in with
\* the time stamp it had elsewhere
Touch ==
    /\ pc = "thumbs"
    /\ \E image_path \in Touchable, t \in 0..MaxClock :
         /\ mtime' = [mtime EXCEPT ![image_path].mtime = t]
         /\ last' = [last EXCEPT !.op = "touch", !.path = image_path]
    /\ UNCHANGED <<pc, clock, thumbs, records, exif, run, allocvars, resizevars>>

Tick ==
    /\ pc = "thumbs"
    /\ clock < MaxClock
    /\ clock' = clock + 1
    /\ UNCHANGED <<pc, mtime, thumbs, records, last, exif, run, allocvars, resizevars>>

ThumbsNext == CallCreateThumbnail \/ Touch \/ Tick

SpecThumbs == ThumbsInit /\ [][ThumbsNext]_vars

(***************************************************************************)
(* Record emission: create_collection_file called on the images.           *)
(***************************************************************************)
Date1 == [year |-> 2024, month |-> 3, day |-> 15, hour |-> 10, minute |-> 20, second |-> 0]

Kyoto == <<"K", "y", "o", "t", "o">>
Locations == {None, Kyoto}
TagArgs == { NoTags,
             [is_list |-> TRUE, items |-> <<>>],
             [is_list |-> FALSE, items |-> <<"travel">>],
             [is_list |-> TRUE, items |-> <<"travel", "city">>],
             [is_list |-> TRUE, items |-> <<"city">>] }

RecordSubjects == {NewJpg, NewPng, OutsideJpg}

RecordsInit ==
    /\ pc = "records"
    /\ clock = 0
    /\ mtime = FilesOnDisk
    /\ thumbs = [t \in ThumbPaths |-> NoFile]
    /\ records = [c \in RecordPaths |-> NoRecord]
    /\ exif = [p \in Images |-> NoExif]
    /\ run = NoRun
    /\ last = NoCall
    /\ AllocIdle
    /\ ResizeIdle

\* one call create_collection_file(image_path, date_obj, location, tags, teaser_url)
CallCreateCollectionFile ==
    /\ pc = "records"
    /\ last.seq < MaxCalls
    /\ \E image_path \in RecordSubjects, date_obj \in {None, Date1},
          location \in Locations, tags \in TagArgs,
          teaser_url \in {None, PathToSiteUrl(ThumbnailPath(<<XJpg>>)).url},
          write_ok \in BOOLEAN :
         \E r \in {CreateCollectionFile(image_path, date_obj, location, tags, teaser_url,
                                        records, write_ok)} :
             /\ records' = r.records
             /\ last' = [NoCall EXCEPT
                           !.seq = last.seq + 1, !.op = "create_collection_file",
                           !.path = image_path,
                           !.args = [date_obj |-> date_obj, location |-> location,
                                     tags |-> tags, teaser_url |-> teaser_url],
                           !.raised = r.raised, !.ret = r.ret, !.out = r.out,
                           !.before = records[CollectionFile(image_path)]]
    /\ UNCHANGED <<pc, clock, mtime, thumbs, exif, run, allocvars, resizevars>>

RecordsNext == CallCreateCollectionFile

SpecRecords == RecordsInit /\ [][RecordsNext]_vars

(***************************************************************************)
(* main(): one invocation, on a directory (process_directory) or on one    *)
(* file (--file).                                                          *)
(***************************************************************************)
StrValue(text) == [is_str |-> TRUE, text |-> text]

ExifOriginal ==
    [error |-> FALSE,
     data |-> [DateTimeOriginal |->
                 StrValue(<<"2", "0", "2", "4", ":", "0", "3", ":", "1", "5", " ",
                            "1", "0", ":", "2", "0", ":", "0", "0">>)]]
\* the first field does not parse, the last one does
ExifFallback ==
    [error |-> FALSE,
     data |-> [DateTimeOriginal |->
                 StrValue(<<"0", "0", "0", "0", ":", "0", "0", ":", "0", "0", " ",
                            "0", "0", ":", "0", "0", ":", "0", "0">>),
               DateTime |->
                 StrValue(<<"2", "0", "2", "4", ":", "0", "3", ":", "1", "6", " ",
                            "0", "8", ":", "0", "0", ":", "0", "0">>)]]
\* no field holds a date string that parses
ExifUnparsed ==
    [error |-> FALSE,
     data |-> [DateTimeOriginal |-> [is_str |-> FALSE, text |-> <<>>],
               DateTimeDigitized |->
                 StrValue(<<"2", "0", "2", "4", "-", "0", "3", "-", "1", "5">>)]]
ExifUnreadable == [error |-> TRUE, data |-> <<>>]

ExifCases == {NoExif, ExifOriginal, ExifFallback, ExifUnparsed, ExifUnreadable}

SourceDirs == {TEMP_DIR, PHOTOS_DIR, OUTSIDE_DIR, DOCS_DIR, MISSING_DIR}

\* Path.exists() for a directory: it holds a file or a directory that does
DirExists(dir, src) ==
    \E p \in DOMAIN src : src[p].exists /\ Len(p) > Len(dir) /\ StartsWith(p, dir)

\* what argparse hands over: --tags gives a list or None, --location a string or None
CliTags == {NoTags, [is_list |-> TRUE, items |-> <<"travel", "city">>]}

Init ==
    /\ pc = "main"
    /\ clock = 0
    /\ mtime = FilesOnDisk
    /\ thumbs = [t \in ThumbPaths |-> NoFile]
    /\ records = [c \in RecordPaths |-> NoRecord]
    /\ \E new \in [{NewJpg, NewPng} -> ExifCases] :
         exif = [p \in Images |->
                   IF p \in DOMAIN new THEN new[p]
                   ELSE IF p = KeptJpg THEN ExifFallback ELSE ExifOriginal]
    /\ run = NoRun
    /\ last = NoCall
    /\ AllocIdle
    /\ ResizeIdle

CallOf(image_path, tags, location, r) ==
    [NoCall EXCEPT
       !.seq = last.seq + 1, !.op = "process_single_image", !.path = image_path,
       !.args = [date_obj |-> r.date_obj, location |-> location, tags |-> tags,
                 teaser_url |-> None],
       !.raised = r.raised, !.ret = r.ret, !.out = r.out, !.time = clock,
       !.before = records[CollectionFile(image_path)]]

\* process_directory up to its loop: lines 257-278
ProcessDirectory ==
    /\ pc = "main"
    /\ \E source_dir \in SourceDirs, tags \in CliTags, location \in Locations :
         LET image_files == ImageFiles(source_dir, mtime)
             started == [NoRun EXCEPT !.mode = "directory", !.tags = tags,
                                      !.location = location]
         IN  IF ~DirExists(source_dir, mtime)
             THEN /\ pc' = "done"
                  /\ run' = started
                  /\ last' = [NoCall EXCEPT !.op = "process_directory", !.path = source_dir,
                                            !.out = <<"no_directory">>]
             ELSE IF image_files = {}
             THEN /\ pc' = "done"
                  /\ run' = started
                  /\ last' = [NoCall EXCEPT !.op = "process_directory", !.path = source_dir,
                                            !.out = <<"no_images">>]
             ELSE /\ pc' = "loop"
                  /\ run' = [started EXCEPT !.found = Sorted(image_files),
                                            !.queue = Sorted(image_files)]
                  /\ last' = [NoCall EXCEPT !.op = "process_directory", !.path = source_dir,
                                            !.out = <<"found">>]
    /\ UNCHANGED <<clock, mtime, thumbs, records, exif, allocvars, resizevars>>

\* one turn of the loop of lines 281-282; an exception that
\* process_single_image raises ends process_directory and main
ProcessNext ==
    /\ pc = "loop"
    /\ run.queue # <<>>
    /\ \E encode_ok \in BOOLEAN, write_ok \in BOOLEAN :
         \E r \in {ProcessSingleImage(Head(run.queue), run.tags, run.location, mtime, exif,
                                      thumbs, records, clock, encode_ok, write_ok)} :
             /\ thumbs' = r.thumbs
             /\ records' = r.records
             /\ last' = CallOf(Head(run.queue), run.tags, run.location, r)
             /\ IF r.raised
                THEN pc' = "raised" /\ run' = run
                ELSE /\ pc' = "loop"
                     /\ run' = [run EXCEPT
                                  !.queue = Tail(@),
                                  !.returned = Append(@, [image |-> Head(run.queue),
                                                          ret |-> r.ret,
                                                          date_obj |-> r.date_obj])]
    /\ UNCHANGED <<clock, mtime, exif, allocvars, resizevars>>

\* line 284: the loop is over and the count is reported
ProcessDirectoryDone ==
    /\ pc = "loop"
    /\ run.queue = <<>>
    /\ pc' = "done"
    /\ last' = [NoCall EXCEPT !.seq = last.seq, !.op = "process_directory",
                              !.out = <<"completed">>]
    /\ UNCHANGED <<clock, mtime, thumbs, records, exif, run, allocvars, resizevars>>

\* main with --file: lines 334-340
ProcessFile ==
    /\ pc = "main"
    /\ \E image_path \in Paths, tags \in CliTags, location \in Locations,
          encode_ok \in BOOLEAN, write_ok \in BOOLEAN :
         LET started == [NoRun EXCEPT !.mode = "file", !.tags = tags, !.location = location]
         IN  IF ~Exists(mtime, image_path)
             THEN /\ pc' = "exit1"
                  /\ run' = started
                  /\ last' = [NoCall EXCEPT !.op = "main", !.path = image_path,
                                            !.out = <<"not_found">>]
                  /\ UNCHANGED <<thumbs, records>>
             ELSE \E r \in {ProcessSingleImage(image_path, tags, location, mtime, exif,
                                               thumbs, records, clock, encode_ok, write_ok)} :
                    /\ thumbs' = r.thumbs
                    /\ records' = r.records
                    /\ last' = CallOf(image_path, tags, location, r)
                    /\ pc' = IF r.raised THEN "raised" ELSE "done"
                    /\ run' = IF r.raised THEN started
                              ELSE [started EXCEPT
                                      !.returned = <<[image |-> image_path, ret |-> r.ret,
                                                      date_obj |-> r.date_obj]>>]
    /\ UNCHANGED <<clock, mtime, exif, allocvars, resizevars>>

Next == ProcessDirectory \/ ProcessNext \/ ProcessDirectoryDone \/ ProcessFile

Spec == Init /\ [][Next]_vars

(***************************************************************************)
(* Claims                                                                  *)
(***************************************************************************)
LowerChar(c) ==
    CASE c = "J" -> "j" [] c = "P" -> "p" [] c = "G" -> "g" [] c = "E" -> "e"
      [] c = "N" -> "n" [] OTHER -> c

Lower(s) == [i \in 1..Len(s) |-> LowerChar(s[i])]

\* f is <token>_<number><ext> with ext an image extension in any letter case
IsNumberedPhoto(f, token) ==
    /\ StartsWith(f, token \o <<"_">>)
    /\ LET rest == SubSeq(f, Len(token) + 2, Len(f))
       IN  \E k \in 2..Len(rest) :
             /\ \A i \in 1..(k - 1) : IsDigit(rest[i])
             /\ Lower(SubSeq(rest, k, Len(rest))) \in {ExtJpg, ExtJpeg, ExtPng}

\* the number in a name that IsNumberedPhoto
NumberOf(f, token) ==
    LET rest == SubSeq(f, Len(token) + 2, Len(f))
        k == CHOOSE j \in 1..Len(rest) : rest[j] = "."
    IN  DecimalValue(SubSeq(rest, 1, k - 1))

\* str(n)
Str(n) == IF n < 0 THEN <<"-">> \o Digits(0 - n) ELSE Digits(n)

\* the file name <date-token>_<sequence> with the fixed extension
PhotoName(token, n) == token \o <<"_">> \o Str(n) \o ExtJpg

\* C1 as stated: the id returned by generate_photo_id is strictly greater than
\* the number of every existing file named <date-token>_<number> with an image
\* extension (in any letter case), and is 1 when no file shares the date token.
C1_IdAboveEveryNumberedPhoto ==
    pc = "allocated" =>
        /\ \A f \in existing_files :
             IsNumberedPhoto(f, date_str) => photo_id > NumberOf(f, date_str)
        /\ (\A f \in existing_files : ~StartsWith(f, date_str)) => photo_id = 1

\* f is <token>_<number>.jpg or <token>_<number>.JPG
IsNumberedJpg(f, token) ==
    /\ IsNumberedPhoto(f, token)
    /\ \/ EndsWith(f, ExtJpg)
       \/ EndsWith(f, ExtJPG)

\* C1 as amended: the id returned by generate_photo_id is strictly greater than
\* the number of every existing file named <date-token>_<number>.jpg or
\* <date-token>_<number>.JPG, the two spellings of the extension the code
\* removes, and is 1 when no file shares the date token.
C1_IdAboveEveryNumberedJpg ==
    pc = "allocated" =>
        /\ \A f \in existing_files :
             IsNumberedJpg(f, date_str) => photo_id > NumberOf(f, date_str)
        /\ (\A f \in existing_files : ~StartsWith(f, date_str)) => photo_id = 1

\* the directory holds <token>_<n>.JPG with n > 1 and another name, and the id
\* is n + 1
C1_Witness ==
    /\ pc = "allocated"
    /\ Cardinality(existing_files) >= 2
    /\ \E f \in existing_files :
         /\ IsNumberedJpg(f, date_str)
         /\ EndsWith(f, ExtJPG)
         /\ NumberOf(f, date_str) > 1
         /\ photo_id = NumberOf(f, date_str) + 1

RoundDiv(a, b) ==
    LET q == a \div b
        r == a % b
    IN  IF 2 * r > b \/ (2 * r = b /\ q % 2 = 1) THEN q + 1 ELSE q

\* C7 as stated: the saved size is (w, h) when w <= m and otherwise
\* (m, max(1, round(h * m / w))).
C7_RoundedHeight ==
    pc = "saved" =>
        new_size = IF img_size[1] <= max_width
                   THEN img_size
                   ELSE <<max_width, Max(RoundDiv(img_size[2] * max_width, img_size[1]), 1)>>

\* C7 as amended: the saved size is (w, h) when w <= m; otherwise its width is m
\* and its height is the proportional height h * m / w truncated, not rounded,
\* with a floor of 1 pixel; when h * m / w is an exact integer k the float
\* product may fall just below k, and the height is then k or k - 1.
C7_TruncatedHeight ==
    pc = "saved" =>
        LET w == img_size[1]
            h == img_size[2]
            floor == (h * max_width) \div w
        IN  IF w <= max_width THEN new_size = img_size
            ELSE /\ new_size[1] = max_width
                 /\ new_size[2] \in {Max(floor, 1), Max(floor - 1, 1)}
                 /\ (h * max_width) % w # 0 => new_size[2] = Max(floor, 1)

\* a downscale where rounding to nearest would have gone up
C7_Witness ==
    /\ pc = "saved"
    /\ img_size[1] > max_width
    /\ 2 * ((img_size[2] * max_width) % img_size[1]) > img_size[1]
    /\ new_size[2] = (img_size[2] * max_width) \div img_size[1]
    /\ new_size[2] > 1


\* C3: in one run every image with a capture date comes back renamed to
\* <YYMMDD>_<n> in the photo directory, and no two images get the same name.
C3_DatedImagesAreRenamed ==
    \A i \in 1..Len(run.returned) :
        LET e == run.returned[i]
        IN  e.date_obj # None =>
              /\ Parent(e.ret) = PHOTOS_DIR
              /\ IsNumberedPhoto(e.ret[Len(e.ret)], FormatDateForFilename(e.date_obj))
              /\ \A j \in 1..Len(run.returned) :
                   (j # i /\ run.returned[j].date_obj # None) => run.returned[j].ret # e.ret

\* C4: process_single_image on an image of the project in which no date is
\* found returns normally, and a record of the image has been written (unless
\* writing the file itself failed, which is reported).
C4_UndatedImageIsRecorded ==
    ( /\ last.op = "process_single_image"
      /\ Exists(mtime, last.path)
      /\ PathToSiteUrl(last.path).ok
      /\ last.args.date_obj = None )
    => /\ ~last.raised
       /\ \/ records[CollectionFile(last.path)].exists
          \/ \E i \in 1..Len(last.out) : last.out[i] = "record_failed"

\* C5: a run of process_directory ends with its completion report, every file
\* it found having been processed, in sorted order.
C5_BatchRunsToCompletion ==
    (run.mode = "directory" /\ pc \notin {"main", "loop"}) =>
        /\ pc = "done"
        /\ [i \in 1..Len(run.returned) |-> run.returned[i].image] = run.found

\* C6 as stated: a call of create_thumbnail on the source that the call before
\* it returned a thumbnail for, the source not touched in between, returns the
\* same path without encoding and leaves the thumbnails as they were.
C6_SecondCallDoesNotEncode ==
    [][ ( /\ last.op = "create_thumbnail"
          /\ last.ret # None
          /\ last'.op = "create_thumbnail"
          /\ last'.seq = last.seq + 1
          /\ last'.path = last.path )
        => ( /\ last'.ret = last.ret
             /\ ~last'.encoded
             /\ thumbs' = thumbs ) ]_vars

\* C6 as amended: the same, provided the source's modification time is not
\* later than the time of the first call.
C6_SecondCallDoesNotEncodeUnlessPostdated ==
    [][ ( /\ last.op = "create_thumbnail"
          /\ last.ret # None
          /\ mtime[last.path].mtime <= last.time
          /\ last'.op = "create_thumbnail"
          /\ last'.seq = last.seq + 1
          /\ last'.path = last.path )
        => ( /\ last'.ret = last.ret
             /\ ~last'.encoded
             /\ thumbs' = thumbs ) ]_vars

\* the first call encoded the thumbnail, time passed, and the second call
\* returned it with the time stamp the first call gave it
C6_Witness ==
    /\ last.op = "create_thumbnail"
    /\ last.prev.op = "create_thumbnail"
    /\ last.prev.path = last.path
    /\ last.prev.encoded
    /\ last.ret # None
    /\ last.ret = last.prev.ret
    /\ ~last.encoded
    /\ last.time > last.prev.time
    /\ thumbs[last.ret].mtime = last.prev.time

\* C8 as stated: whenever create_thumbnail returns None it has printed a
\* message.
C8_EveryFailureIsLogged ==
    (last.op = "create_thumbnail" /\ last.ret = None) => last.out # <<>>

\* C8 as amended: whenever create_thumbnail returns None for a source that
\* exists (it lies outside the project root, or encoding failed) it has printed
\* a message; for a missing source it returns None and prints nothing.
C8_FailureOfExistingSourceIsLogged ==
    (last.op = "create_thumbnail" /\ last.ret = None) =>
        IF Exists(mtime, last.path) THEN last.out # <<>> ELSE last.out = <<>>

\* a source outside the project root was refused with a message
C8_Witness ==
    /\ last.op = "create_thumbnail"
    /\ last.ret = None
    /\ Exists(mtime, last.path)
    /\ ~RelativeTo(last.path, PROJECT_ROOT).ok
    /\ last.out = <<"outside_project">>

\* C9: after a call of create_collection_file that emits a record, the record
\* holds exactly the fields of that call, whatever it held before: the call's
\* tags and location when it supplies them and no such field when it does not;
\* a call that emits nothing leaves the record as it was.
C9_RecordHoldsOnlyTheLastCall ==
    last.op = "create_collection_file" =>
        LET record == records[CollectionFile(last.path)]
            fm == record.front_matter
            a == last.args
        IN  IF last.ret = None THEN record = last.before
            ELSE /\ last.ret = CollectionFile(last.path)
                 /\ record.exists
                 /\ DOMAIN fm = {"title", "date", "header"}
                                  \cup (IF a.location # <<>> THEN {"location"} ELSE {})
                                  \cup (IF a.tags.items # <<>> THEN {"tags"} ELSE {})
                 /\ fm.title = Stem(last.path)
                 /\ fm.date = FormatDateForFrontmatter(a.date_obj)
                 /\ fm.header.image = PathToSiteUrl(last.path).url
                 /\ fm.header.teaser = (IF a.teaser_url # <<>> THEN a.teaser_url
                                        ELSE PathToSiteUrl(last.path).url)
                 /\ "location" \in DOMAIN fm => fm.location = a.location
                 /\ "tags" \in DOMAIN fm => fm.tags = a.tags.items

\* a record with tags and a location was overwritten by a call that supplied
\* one other tag and no location
C9_Witness ==
    /\ last.op = "create_collection_file"
    /\ last.ret # None
    /\ last.before.exists
    /\ {"tags", "location"} \subseteq DOMAIN last.before.front_matter
    /\ last.before.front_matter.tags = <<"travel", "city">>
    /\ last.args.tags.items = <<"city">>
    /\ last.args.location = None
    /\ records[last.ret].front_matter.tags = <<"city">>
    /\ "location" \notin DOMAIN records[last.ret].front_matter

\* C10: the thumbnail that create_thumbnail returns for a source was made from
\* that source: distinct sources have distinct thumbnail paths.
C10_ThumbnailComesFromItsSource ==
    (last.op = "create_thumbnail" /\ last.ret # None) => thumbs[last.ret].src = last.path

=============================================================================
